---- MODULE Spec2Model ----
(***************************************************************************)
(* Model of bsdpserver.py (BSDPy): the BSDP receive loop, the entitlement   *)
(* filter, the default-image post-processing and the LIST/SELECT reply      *)
(* encoder, in filesystem mode (BSDPY_API_URL unset).                       *)
(*                                                                         *)
(* Conventions: a Python str is a sequence of one-character strings, a      *)
(* list of ints is a sequence of naturals, a dict is a function whose       *)
(* DOMAIN is the set of keys.  A raised exception is a record with          *)
(* ok = FALSE.                                                             *)
(***************************************************************************)
EXTENDS Integers, Sequences, FiniteSets, TLC

(* ---------------------------------------------------------------------- *)
(* Bounds of the model                                                     *)
(* ---------------------------------------------------------------------- *)

\* Largest number of .nbi candidates found by one scan of the NBI root.
MaxCatalog == 2

\* Largest number of EnabledMACAddresses entries of the descriptors the
\* entitlement filter is probed with.
MaxMacs == 2

(* ---------------------------------------------------------------------- *)
(* String helpers (Python built-ins used by the server)                    *)
(* ---------------------------------------------------------------------- *)

HexChars ==
  <<"0","1","2","3","4","5","6","7","8","9","a","b","c","d","e","f">>

\* Value of one hexadecimal digit character.
HexVal(c) == CHOOSE n \in 0..15 : HexChars[n + 1] = c

\* hex(i)[2:] and format(i, 'x'): lowercase hex WITHOUT zero padding.
RECURSIVE HexLower(_)
HexLower(i) ==
  IF i < 16 THEN <<HexChars[i + 1]>>
  ELSE HexLower(i \div 16) \o <<HexChars[(i % 16) + 1]>>

\* int(s, 16) for a non-empty string of hex digits.
RECURSIVE IntBase16(_)
IntBase16(s) ==
  IF Len(s) = 0 THEN 0
  ELSE 16 * IntBase16(SubSeq(s, 1, Len(s) - 1)) + HexVal(s[Len(s)])

\* '%04X' % n and '%02X' % n: hex digits zero-padded to at least w digits.
\* (The digits are only fed to int(.., 16), so their case is immaterial.)
RECURSIVE PadLeft(_, _)
PadLeft(s, w) == IF Len(s) >= w THEN s ELSE PadLeft(<<"0">> \o s, w)

FormatX(n, w) == PadLeft(HexLower(n), w)

\* [int(s[i:i+2], 16) for i in range(0, len(s), 2)]
RECURSIVE Chunks2(_)
Chunks2(s) ==
  IF Len(s) = 0 THEN <<>>
  ELSE IF Len(s) = 1 THEN <<IntBase16(s)>>
  ELSE <<IntBase16(SubSeq(s, 1, 2))>> \o Chunks2(SubSeq(s, 3, Len(s)))

\* sep.join(parts)
RECURSIVE Join(_, _)
Join(sep, parts) ==
  IF Len(parts) = 0 THEN <<>>
  ELSE IF Len(parts) = 1 THEN parts[1]
  ELSE parts[1] \o sep \o Join(sep, Tail(parts))

\* s.ljust(w, NUL): pads on the right, never truncates.
NUL == "NUL"
Ljust(s, w) ==
  IF Len(s) >= w THEN s ELSE s \o [i \in 1..(w - Len(s)) |-> NUL]

\* Python slice l[a:b] with 0-based a <= b, clipped to the list.
Slice(l, a, b) ==
  LET hi == IF b > Len(l) THEN Len(l) ELSE b
  IN  IF a >= hi THEN <<>> ELSE SubSeq(l, a + 1, hi)

\* F applied to the value of v, with v evaluated once.
Bind(v, F(_)) == CHOOSE r \in { F(x) : x \in {v} } : TRUE

\* strlist(list_of_int): chr() raises ValueError outside 0..255.
StrlistOk(l) == \A i \in 1..Len(l) : l[i] \in 0..255

(* ---------------------------------------------------------------------- *)
(* Module-level configuration                                              *)
(* ---------------------------------------------------------------------- *)

bsdpoptioncodes ==
  [c \in 1..12 |->
     CASE c = 1  -> "message_type"
       [] c = 2  -> "version"
       [] c = 3  -> "server_identifier"
       [] c = 4  -> "server_priority"
       [] c = 5  -> "reply_port"
       [] c = 6  -> "image_icon_unused"
       [] c = 7  -> "default_boot_image"
       [] c = 8  -> "selected_boot_image"
       [] c = 9  -> "boot_image_list"
       [] c = 10 -> "netboot_v1"
       [] c = 11 -> "boot_image_attributes"
       [] c = 12 -> "max_message_size"]

\* global: the names of the BSDPY_* environment variables that are set.
VARIABLE dockervars

\* API mode iff BSDPY_API_URL is set; otherwise NBIs come from
\* NBImageInfo.plist files.
useapiurl == "BSDPY_API_URL" \in dockervars

\* --path: the root NBIs are served out of.
tftprootpath == <<"/", "n", "b", "i">>

\* The address of the serving interface (BSDPY_IP), as bytes and as text.
serverip == <<10, 0, 0, 1>>
serverip_str == <<"1","0",".","0",".","0",".","1">>

\* --proto http without BSDPY_NBI_URL: 'http://' + serverip_str + '/'
basedmgpath == <<"h","t","t","p",":","/","/">> \o serverip_str \o <<"/">>

\* Values randint(1,255) can give to the two server_priority bytes.
PriorityPool == { <<1, 255>>, <<17, 3>> }

(* ---------------------------------------------------------------------- *)
(* The NBI root: NBImageInfo.plist descriptors a scan can find             *)
(* ---------------------------------------------------------------------- *)

\* chaddr values of the clients (first 6 of the 16 bytes matter).
ChaddrHigh == <<170, 187, 204, 221, 238, 255>>   \* aa:bb:cc:dd:ee:ff
ChaddrLow  == <<0, 10, 39, 0, 0, 1>>             \* 00:0a:27:00:00:01
ChaddrPool == { ChaddrHigh, ChaddrLow }

\* The form in which Apple's tools write EnabledMACAddresses entries:
\* six two-digit lowercase hex bytes joined by ':'.
MacText(chaddr) ==
  Join(<<":">>, [i \in 1..6 |-> FormatX(chaddr[i], 2)])

TestImage == <<84, 101, 115, 116, 73, 109, 97, 103, 101>>

\* One .nbi directory: the keys of its NBImageInfo.plist, the kernel and
\* the disk image found in it, and what it lacks (Missing): nothing
\* ("none"), the descriptor file, a key of the descriptor, the kernel file
\* BootFile names, or a *.dmg file.
Plist(index, enabled, isdefault, name, type, ensys, dissys, macs) ==
  [Missing |-> "none",
   Index |-> index, IsEnabled |-> enabled, IsDefault |-> isdefault,
   Name |-> name, Description |-> name, Type |-> type,
   BootFile |-> <<"/","n","/">> \o HexLower(index) \o <<"/","b">>,
   Dmg |-> <<"n","/">> \o HexLower(index) \o <<".","d","m","g">>,
   EnabledSystemIdentifiers |-> ensys,
   DisabledSystemIdentifiers |-> dissys,
   EnabledMACAddresses |-> macs]

\* The .nbi directories that can exist under the NBI root, in the order
\* os.walk visits them.
NbiDirs ==
  << Plist(9, TRUE, FALSE, <<67>>, "BootFileOnly",
           {"Mac-X", "Mac-Y"}, {"Mac-X"}, {}),
     Plist(4097, TRUE, TRUE, TestImage, "NetBoot", {}, {}, {}),
     Plist(7, TRUE, TRUE, <<66, 66>>, "NetBoot", {"Mac-Y"}, {},
           {MacText(ChaddrHigh)}),
     Plist(5, TRUE, TRUE, <<65>>, "NetInstall", {}, {"Mac-X"}, {}),
     Plist(0, TRUE, TRUE, <<70>>, "NetBoot", {}, {}, {}) >>

\* The directories with index in S, in walk order.
RECURSIVE Pick(_, _)
Pick(S, i) ==
  IF i > Len(NbiDirs) THEN <<>>
  ELSE (IF i \in S THEN <<NbiDirs[i]>> ELSE <<>>) \o Pick(S, i + 1)

\* A readable directory tree with the .nbi directories dirs.
Tree(dirs) == [readable |-> TRUE, dirs |-> dirs]

\* What one scan can find: at most MaxCatalog of the directories.
NbiRoots ==
  { Tree(Pick(S, 1)) : S \in { T \in SUBSET (1..Len(NbiDirs)) :
                                 Cardinality(T) <= MaxCatalog } }

(* ---------------------------------------------------------------------- *)
(* getNbiOptions: the catalog built by one scan                            *)
(* ---------------------------------------------------------------------- *)

\* str.lower() on one character (hex letters are the only letters used).
LowerChar(c) ==
  CASE c = "A" -> "a" [] c = "B" -> "b" [] c = "C" -> "c"
    [] c = "D" -> "d" [] c = "E" -> "e" [] c = "F" -> "f"
    [] OTHER -> c

Lower(s) == [i \in 1..Len(s) |-> LowerChar(s[i])]

\* The dict thisnbi built from one NBImageInfo.plist; BootFileOnly images
\* get no 'dmg' key.
ThisNbi(nbimageinfo) ==
  LET common ==
        [id |-> nbimageinfo.Index,
         booter |-> nbimageinfo.BootFile,
         description |-> nbimageinfo.Description,
         disabledsysids |-> nbimageinfo.DisabledSystemIdentifiers,
         enabledmacaddrs |->
           { Lower(mac) : mac \in nbimageinfo.EnabledMACAddresses },
         enabledsysids |-> nbimageinfo.EnabledSystemIdentifiers,
         isdefault |-> nbimageinfo.IsDefault,
         length |-> Len(nbimageinfo.Name),
         name |-> nbimageinfo.Name,
         proto |-> nbimageinfo.Type]
  IN  IF nbimageinfo.Type # "BootFileOnly"
      THEN common @@ [dmg |-> nbimageinfo.Dmg]
      ELSE common

\* os.walk(top): the .nbi directories in the order they are visited.
\* os.walk ignores the errors of os.listdir, so a top that cannot be read
\* (or does not exist) yields nothing.
os_walk(top) == IF top.readable THEN top.dirs ELSE <<>>

\* The for loop over the walk.  ok = FALSE: an exception left the loop
\* (IndexError of find(...)[0], KeyError of a missing key) and is
\* re-raised by getNbiOptions.
RECURSIVE WalkLoop(_, _)
WalkLoop(candidates, nbioptions) ==
  IF Len(candidates) = 0 THEN [ok |-> TRUE, nbioptions |-> nbioptions]
  ELSE LET nbimageinfo == Head(candidates)
       IN  IF nbimageinfo.Missing \in {"NBImageInfo.plist", "Index"}
           THEN [ok |-> FALSE]
           ELSE IF nbimageinfo.Index = 0
           THEN WalkLoop(Tail(candidates), nbioptions)
           ELSE IF nbimageinfo.IsEnabled = FALSE
           THEN WalkLoop(Tail(candidates), nbioptions)
           ELSE IF nbimageinfo.Missing \in {"BootFile", "Description"}
           THEN [ok |-> FALSE]
           ELSE IF nbimageinfo.Missing = "dmg"
                   /\ nbimageinfo.Type # "BootFileOnly"
           THEN [ok |-> FALSE]
           ELSE WalkLoop(Tail(candidates),
                         Append(nbioptions, ThisNbi(nbimageinfo)))

getNbiOptions(incoming) == WalkLoop(os_walk(incoming), <<>>)

(* ---------------------------------------------------------------------- *)
(* Client identity                                                         *)
(* ---------------------------------------------------------------------- *)

chaddr_to_mac(chaddr) ==
  Join(<<":">>, [i \in 1..6 |-> HexLower(chaddr[i])])

(* ---------------------------------------------------------------------- *)
(* getSysIdEntitlement and doEntitlementPostProcessing                     *)
(* ---------------------------------------------------------------------- *)

\* Entitled with the allow-list consulted before the deny-list: a client
\* on the allow-list is admitted even when it is on the deny-list too.
EntitledAllowFirst(thisnbi, clientsysid, clientmacaddr) ==
  IF thisnbi.enabledmacaddrs # {}
     /\ clientmacaddr \notin thisnbi.enabledmacaddrs
  THEN FALSE
  ELSE IF thisnbi.disabledsysids = {} /\ thisnbi.enabledsysids = {}
  THEN TRUE
  ELSE IF clientsysid \in thisnbi.enabledsysids
  THEN TRUE
  ELSE IF clientsysid \in thisnbi.disabledsysids
  THEN FALSE
  ELSE TRUE

\* Entitled without the EnabledMACAddresses test.
EntitledNoMac(thisnbi, clientsysid, clientmacaddr) ==
  LET hasdupes == clientsysid \in thisnbi.disabledsysids
                  /\ clientsysid \in thisnbi.enabledsysids
  IN  IF hasdupes THEN FALSE
      ELSE IF thisnbi.disabledsysids = {} /\ thisnbi.enabledsysids = {}
      THEN TRUE
      ELSE IF clientsysid \in thisnbi.disabledsysids
      THEN FALSE
      ELSE TRUE

\* TRUE iff the loop body of getSysIdEntitlement appends thisnbi.
Entitled(thisnbi, clientsysid, clientmacaddr) ==
  LET hasdupes == clientsysid \in thisnbi.disabledsysids
                  /\ clientsysid \in thisnbi.enabledsysids
  IN  IF hasdupes THEN FALSE
      ELSE IF thisnbi.enabledmacaddrs # {}
              /\ clientmacaddr \notin thisnbi.enabledmacaddrs
      THEN FALSE
      ELSE IF thisnbi.disabledsysids = {} /\ thisnbi.enabledsysids = {}
      THEN TRUE
      ELSE IF clientsysid \in thisnbi.disabledsysids
      THEN FALSE
      ELSE IF clientsysid \notin thisnbi.enabledsysids
              \/ (clientsysid \in thisnbi.enabledsysids
                  /\ clientsysid \notin thisnbi.disabledsysids)
      THEN TRUE
      ELSE FALSE

RECURSIVE nbientitlements(_, _, _)
nbientitlements(nbisources, clientsysid, clientmacaddr) ==
  IF Len(nbisources) = 0 THEN <<>>
  ELSE LET rest == nbientitlements(Tail(nbisources), clientsysid,
                                   clientmacaddr)
       IN  IF Entitled(Head(nbisources), clientsysid, clientmacaddr)
           THEN <<Head(nbisources)>> \o rest
           ELSE rest

\* One iteration of the default search: the globals defaultnbi, hasdefault
\* after looking at image.
DefaultStep(g, image) ==
  IF image.isdefault = TRUE
  THEN IF g.defaultnbi < image.id
       THEN [defaultnbi |-> image.id, hasdefault |-> TRUE]
       ELSE g
  ELSE IF ~g.hasdefault
       THEN IF g.defaultnbi < image.id
            THEN [defaultnbi |-> image.id, hasdefault |-> g.hasdefault]
            ELSE g
       ELSE g

\* The entry one image adds to imagenameslist.
ImageEntry(image) ==
  <<129, 0>> \o Chunks2(FormatX(image.id, 4)) \o <<image.length>>
  \o image.name

\* The globals after doEntitlementPostProcessing(ents), started from the
\* globals g: defaultnbi and hasdefault carry over from the previous call,
\* imagenameslist is rebuilt from [].
RECURSIVE PostLoop(_, _)
PostLoop(ents, g) ==
  IF Len(ents) = 0 THEN g
  ELSE LET image == Head(ents)
           d == DefaultStep(g, image)
       IN  PostLoop(Tail(ents),
                    [defaultnbi |-> d.defaultnbi,
                     hasdefault |-> d.hasdefault,
                     imagenameslist |->
                       g.imagenameslist \o ImageEntry(image)])

doEntitlementPostProcessing(ents, g) ==
  PostLoop(ents, [defaultnbi |-> g.defaultnbi,
                  hasdefault |-> g.hasdefault,
                  imagenameslist |-> <<>>])

(* ---------------------------------------------------------------------- *)
(* getNbiFromApi: the records of one API answer (API mode)                 *)
(* ---------------------------------------------------------------------- *)

\* v.encode('ascii', 'ignore'): code points above 127 are dropped.
RECURSIVE EncodeAscii(_)
EncodeAscii(v) ==
  IF Len(v) = 0 THEN <<>>
  ELSE (IF Head(v) < 128 THEN <<Head(v)>> ELSE <<>>)
       \o EncodeAscii(Tail(v))

\* sub in s, for strings.
Contains(s, sub) ==
  \E i \in 1..(Len(s) - Len(sub) + 1) :
    SubSeq(s, i, i + Len(sub) - 1) = sub

\* Hosts a root_dmg_url can name: an IPv4 literal, a name the resolver
\* knows, a name it does not know.
IpHost == <<"1", "0", ".", "0", ".", "0", ".", "9">>
NamedHost == <<"n", "b", "i", "h", "o", "s", "t">>
UnknownHost == <<"g", "o", "n", "e">>

\* socket.inet_aton(h) succeeds.
inet_aton_ok(h) == h = IpHost

\* socket.gethostbyname(h); ok = FALSE: socket.gaierror.
gethostbyname(h) ==
  IF h = IpHost \/ h = NamedHost THEN [ok |-> TRUE, ip |-> IpHost]
  ELSE [ok |-> FALSE]

\* The text of a URL and what urlparse makes of it.
UrlText(scheme, host, path) == scheme \o <<":", "/", "/">> \o host \o path

\* The for loop over the items of one entry i of result['images'], keys in
\* the order ks in which the dict yields them; v is the entry, nbi the
\* record built so far.  kind: "append" (loop ran to its end), "break"
\* (root_dmg_url without '.nbi'), "raise" (an exception left the loop).
RECURSIVE ApiItems(_, _, _)
ApiItems(v, ks, nbi) ==
  IF Len(ks) = 0 THEN [kind |-> "append", nbi |-> nbi]
  ELSE
  LET k == Head(ks)
      url == v.root_dmg_url
      nbiuri == UrlText(url.scheme, url.host, url.path)
  IN  IF k = "name"
      THEN ApiItems(v, Tail(ks),
             [name |-> EncodeAscii(v.name),
              description |-> EncodeAscii(v.name),
              length |-> Len(v.name)] @@ nbi)
      ELSE IF k = "priority"
      THEN ApiItems(v, Tail(ks), [id |-> v.priority] @@ nbi)
      ELSE IF k = "booter_url"
      THEN ApiItems(v, Tail(ks),
             [booter |-> tftprootpath \o v.booter_url] @@ nbi)
      ELSE IF k = "root_dmg_url"
      THEN IF Contains(nbiuri, <<".", "n", "b", "i">>)
           THEN IF inet_aton_ok(url.host)
                THEN ApiItems(v, Tail(ks), [dmg |-> nbiuri] @@ nbi)
                ELSE IF gethostbyname(url.host).ok
                THEN ApiItems(v, Tail(ks),
                       [dmg |-> UrlText(url.scheme,
                                        gethostbyname(url.host).ip,
                                        url.path)] @@ nbi)
                ELSE [kind |-> "raise"]
           ELSE IF "name" \in DOMAIN nbi
                THEN [kind |-> "break"]
                ELSE [kind |-> "raise"]
      ELSE ApiItems(v, Tail(ks), nbi)

\* The outer loop over result['images']: a break of the inner loop breaks
\* the outer loop too.
RECURSIVE ApiImages(_, _)
ApiImages(images, nbis) ==
  IF Len(images) = 0 THEN [ok |-> TRUE, nbis |-> nbis]
  ELSE LET r == ApiItems(Head(images), Head(images).keys,
                         [disabledsysids |-> {}, enabledsysids |-> {},
                          enabledmacaddrs |-> {}, proto |-> "NFS",
                          length |-> 0, id |-> 1, isdefault |-> FALSE])
       IN  IF r.kind = "append"
           THEN ApiImages(Tail(images), Append(nbis, r.nbi))
           ELSE IF r.kind = "break"
           THEN [ok |-> TRUE, nbis |-> nbis]
           ELSE [ok |-> FALSE]

\* getNbiFromApi for a client query; result is what the API answered.
\* ok = FALSE: an exception (requests.get failed, gaierror, KeyError).
getNbiFromApi(result) ==
  IF result.status # "ok" THEN [ok |-> FALSE]
  ELSE ApiImages(result.images, <<>>)

(* ---------------------------------------------------------------------- *)
(* parseOptions: the BSDP sub-option decoder                               *)
(* ---------------------------------------------------------------------- *)

\* The while loop: msgtypes maps an option name to [start, length]
\* (0-based start of the value).  ok = FALSE: IndexError or KeyError.
RECURSIVE ParseWalk(_, _, _)
ParseWalk(bsdpoptions, pointer, msgtypes) ==
  IF ~(pointer < Len(bsdpoptions)) THEN [ok |-> TRUE, msgtypes |-> msgtypes]
  ELSE LET start == pointer
           length == pointer + 1
       IN  IF length >= Len(bsdpoptions) THEN [ok |-> FALSE]
           ELSE LET optionlength == bsdpoptions[length + 1]
                    code == bsdpoptions[start + 1]
                IN  IF code \notin DOMAIN bsdpoptioncodes
                    THEN [ok |-> FALSE]
                    ELSE ParseWalk(bsdpoptions, optionlength + length + 1,
                           [m \in DOMAIN msgtypes
                                  \cup {bsdpoptioncodes[code]} |->
                              IF m = bsdpoptioncodes[code]
                              THEN <<length + 1, optionlength>>
                              ELSE msgtypes[m]])

parseOptions(bsdpoptions) ==
  LET w == ParseWalk(bsdpoptions, 0, <<>>)
  IN  IF ~w.ok THEN [ok |-> FALSE]
      ELSE [ok |-> TRUE,
            optionvalues |->
              [msg \in DOMAIN w.msgtypes |->
                 Slice(bsdpoptions, w.msgtypes[msg][1],
                       w.msgtypes[msg][1] + w.msgtypes[msg][2])]]

(* ---------------------------------------------------------------------- *)
(* ack: build the BSDP[LIST] or BSDP[SELECT] reply                         *)
(* ---------------------------------------------------------------------- *)

\* int(format(b0, 'x') + format(b1, 'x'), 16)
ReplyPort(b0, b1) == IntBase16(HexLower(b0) \o HexLower(b1))

\* An envelope that numbers the reply itself.
EnvelopeOwnXid(packet) ==
  [op |-> <<2>>,
   htype |-> packet.htype,
   hlen |-> packet.hlen,
   xid |-> <<0, 0, 0, 1>>,
   ciaddr |-> packet.ciaddr,
   siaddr |-> serverip,
   yiaddr |-> <<0, 0, 0, 0>>,
   chaddr |-> packet.chaddr,
   dhcp_message_type |-> <<5>>,
   server_identifier |-> serverip]

\* The reply fields common to LIST and SELECT.
Envelope(packet) ==
  [op |-> <<2>>,
   htype |-> packet.htype,
   hlen |-> packet.hlen,
   xid |-> packet.xid,
   ciaddr |-> packet.ciaddr,
   siaddr |-> serverip,
   yiaddr |-> <<0, 0, 0, 0>>,
   chaddr |-> packet.chaddr,
   dhcp_message_type |-> <<5>>,
   server_identifier |-> serverip]

\* A LIST reply announced as message type 3.
ListOptionsFailed(enablednbis, defaultarg, names, priority) ==
  LET RECURSIVE Sum(_)
      Sum(l) == IF Len(l) = 0 THEN 0 ELSE Head(l).length + Sum(Tail(l))
      nameslength == Sum(enablednbis)
      totallength == Len(enablednbis) * 5 + nameslength
      bsdpimagelist == <<9, totallength>> \o names
      defaultopt == <<7, 4, 129, 0>> \o Chunks2(FormatX(defaultarg, 4))
      hasnulldefault == defaultopt[Len(defaultopt)] = 0
      head == <<1, 1, 3, 4, 2>> \o priority
  IN  IF ~StrlistOk(head) THEN [ok |-> FALSE]
      ELSE IF ~hasnulldefault /\ ~StrlistOk(defaultopt) THEN [ok |-> FALSE]
      ELSE IF ~StrlistOk(bsdpimagelist) THEN [ok |-> FALSE]
      ELSE [ok |-> TRUE,
            veo |-> head
                    \o (IF hasnulldefault THEN <<>> ELSE defaultopt)
                    \o bsdpimagelist]

\* vendor_encapsulated_options of a LIST reply.  defaultarg is the
\* parameter defaultnbi of ack, names the global imagenameslist.
\* ok = FALSE: strlist() raised.
ListOptions(enablednbis, defaultarg, names, priority) ==
  LET RECURSIVE Sum(_)
      Sum(l) == IF Len(l) = 0 THEN 0 ELSE Head(l).length + Sum(Tail(l))
      nameslength == Sum(enablednbis)
      totallength == Len(enablednbis) * 5 + nameslength
      bsdpimagelist == <<9, totallength>> \o names
      defaultopt == <<7, 4, 129, 0>> \o Chunks2(FormatX(defaultarg, 4))
      hasnulldefault == defaultopt[Len(defaultopt)] = 0
      head == <<1, 1, 1, 4, 2>> \o priority
  IN  IF ~StrlistOk(head) THEN [ok |-> FALSE]
      ELSE IF ~hasnulldefault /\ ~StrlistOk(defaultopt) THEN [ok |-> FALSE]
      ELSE IF ~StrlistOk(bsdpimagelist) THEN [ok |-> FALSE]
      ELSE [ok |-> TRUE,
            veo |-> head
                    \o (IF hasnulldefault THEN <<>> ELSE defaultopt)
                    \o bsdpimagelist]

\* The loop of the SELECT branch over enablednbis: the last matching
\* record wins; in filesystem mode a matching record without 'dmg' sets
\* booterfile only, in API mode it raises KeyError (raised = TRUE).
RECURSIVE SelectLoop(_, _, _, _)
SelectLoop(enablednbis, imageid, selected, acc) ==
  IF Len(enablednbis) = 0 \/ acc.raised THEN acc
  ELSE LET nbidict == Head(enablednbis)
           next ==
             IF nbidict.id # imageid THEN acc
             ELSE IF "booter" \notin DOMAIN nbidict
             THEN [acc EXCEPT !.raised = TRUE]
             ELSE IF "dmg" \notin DOMAIN nbidict
             THEN [acc EXCEPT !.booterfile = nbidict.booter,
                              !.raised = useapiurl]
             ELSE [booterfile |-> nbidict.booter,
                   rootpath |-> IF useapiurl THEN nbidict.dmg
                                ELSE basedmgpath \o nbidict.dmg,
                   selectedimage |-> selected,
                   raised |-> FALSE]
       IN  SelectLoop(Tail(enablednbis), imageid, selected, next)

\* The LIST and SELECT branches of ack, after the common part; g2 are the
\* globals as doEntitlementPostProcessing left them.
AckBranch(packet, defaultarg, msgtype, bsdpoptions, enablednbis, g2, clientip, replyport, priority) ==
  LET fail == [raised |-> TRUE, looked |-> TRUE, g |-> g2]
      done(bsdpack) == [raised |-> FALSE, looked |-> TRUE, g |-> g2,
                        bsdpack |-> bsdpack,
                        clientip |-> clientip, replyport |-> replyport]
  IN
  IF msgtype = "list"
  THEN Bind(ListOptions(enablednbis, defaultarg, g2.imagenameslist,
                        priority),
            LAMBDA lo :
              IF ~lo.ok THEN fail
              ELSE done(Envelope(packet)
                        @@ [vendor_encapsulated_options |-> lo.veo]))
  ELSE
  IF "selected_boot_image" \notin DOMAIN bsdpoptions
     \/ Len(bsdpoptions["selected_boot_image"]) < 4
  THEN fail
  ELSE
  LET sbi == bsdpoptions["selected_boot_image"]
      imageid == IntBase16(FormatX(sbi[3], 2) \o FormatX(sbi[4], 2))
  IN  Bind(SelectLoop(enablednbis, imageid, sbi,
                      [booterfile |-> <<>>, rootpath |-> <<>>,
                       selectedimage |-> <<>>, raised |-> FALSE]),
           LAMBDA sel :
             IF sel.raised THEN fail
             ELSE
             done(Envelope(packet)
                  @@ [file |-> Ljust(sel.booterfile, 128),
                      root_path |-> sel.rootpath,
                      vendor_encapsulated_options |->
                        <<1, 1, 2, 8, 4>> \o sel.selectedimage]))

\* ack from the entitled records on: post-processing (which rewrites the
\* globals), then the reply port, then the branch for msgtype.
AckProcessed(packet, defaultarg, msgtype, enablednbis, g, priority, bsdpoptions, clientip) ==
  Bind(doEntitlementPostProcessing(enablednbis, g),
       LAMBDA g2 :
         LET hasport == "reply_port" \in DOMAIN bsdpoptions IN
         IF hasport /\ Len(bsdpoptions["reply_port"]) < 2
         THEN [raised |-> TRUE, looked |-> TRUE, g |-> g2]
         ELSE AckBranch(packet, defaultarg, msgtype, bsdpoptions,
                enablednbis, g2, clientip,
                IF hasport
                THEN ReplyPort(bsdpoptions["reply_port"][1],
                               bsdpoptions["reply_port"][2])
                ELSE 68,
                priority))

\* The common part of ack once the BSDP options are decoded: the lookup
\* of the records the client is entitled to.  nbis is the global nbiimages
\* in filesystem mode and the answer of the API in API mode.
AckEntitled(packet, defaultarg, msgtype, nbis, g, priority, bsdpoptions, clientip) ==
  IF useapiurl
  THEN Bind(getNbiFromApi(nbis),
            LAMBDA api :
              IF ~api.ok THEN [raised |-> TRUE, looked |-> TRUE, g |-> g]
              ELSE AckProcessed(packet, defaultarg, msgtype, api.nbis, g,
                                priority, bsdpoptions, clientip))
  ELSE Bind(nbientitlements(nbis, packet.vendor_class_identifier[3],
                            chaddr_to_mac(packet.chaddr)),
            LAMBDA enablednbis :
              AckProcessed(packet, defaultarg, msgtype, enablednbis, g,
                           priority, bsdpoptions, clientip))

\* ack without the fallback to request_ip_address.
ackToCiaddr(packet, defaultarg, msgtype, nbis, g, priority) ==
  LET vci == packet.vendor_class_identifier
      fail == [raised |-> TRUE, looked |-> FALSE, g |-> g]
      clientip == packet.ciaddr
  IN
  IF Len(vci) < 3 THEN fail
  ELSE IF Len(clientip) # 4 THEN fail
  ELSE Bind(parseOptions(packet.vendor_encapsulated_options),
            LAMBDA parsed :
              IF ~parsed.ok THEN fail
              ELSE AckEntitled(packet, defaultarg, msgtype, nbis, g,
                               priority, parsed.optionvalues, clientip))

\* ack(packet, defaultnbi, msgtype) run with the globals g
\* (defaultnbi, hasdefault, imagenameslist) and the catalog nbis.
\* Result: raised = TRUE when an exception left ack; looked = TRUE when
\* getSysIdEntitlement was called; g is the value of the globals when ack
\* ends either way.
ack(packet, defaultarg, msgtype, nbis, g, priority) ==
  LET vci == packet.vendor_class_identifier
      fail == [raised |-> TRUE, looked |-> FALSE, g |-> g]
      clientip == IF packet.ciaddr # <<0, 0, 0, 0>> THEN packet.ciaddr
                  ELSE packet.request_ip_address
  IN
  IF Len(vci) < 3 THEN fail
  ELSE IF Len(clientip) # 4 THEN fail
  ELSE Bind(parseOptions(packet.vendor_encapsulated_options),
            LAMBDA parsed :
              IF ~parsed.ok THEN fail
              ELSE AckEntitled(packet, defaultarg, msgtype, nbis, g,
                               priority, parsed.optionvalues, clientip))

(* ---------------------------------------------------------------------- *)
(* Packets the socket can deliver                                          *)
(* ---------------------------------------------------------------------- *)

\* dhcp_message_type option values of requests.
DhcpInform == <<8>>
DhcpDiscover == <<1>>

ClientIp == <<10, 0, 0, 50>>
RequestedIp == <<10, 0, 0, 51>>

Vci(sysid) == <<"AAPLBSDPC", "i386", sysid>>

Pkt(type, vci, chaddr, ciaddr, reqip, veo) ==
  [kind |-> "packet",
   dhcp_message_type |-> type,
   htype |-> <<1>>, hlen |-> <<6>>, xid |-> <<0, 0, 0, 1>>,
   ciaddr |-> ciaddr, chaddr |-> chaddr,
   request_ip_address |-> reqip,
   vendor_class_identifier |-> vci,
   vendor_encapsulated_options |-> veo]

VeoList == <<1, 1, 1>>
VeoListPort(b0, b1) == <<1, 1, 1, 5, 2, b0, b1>>
VeoSelect(hi, lo) == <<1, 1, 2, 8, 4, 129, 0, hi, lo>>

\* The requests of client Mac-Y / aa:bb:cc:dd:ee:ff: LIST, LIST with a
\* reply port (0x1F90, and 0x1F05 with a byte below 0x10), SELECT of image
\* 0x1001, of image 9 (a BootFileOnly image) and of an id no image has, a
\* blob that starts with reply_port, message type 3, a SELECT without
\* selected_boot_image.
MainVeos ==
  { VeoList, VeoListPort(31, 144), VeoListPort(31, 5),
    VeoSelect(16, 1), VeoSelect(0, 9), VeoSelect(0, 66),
    <<5, 2, 1, 144>>, <<1, 1, 3>>, <<1, 1, 2>> }

PacketPool ==
  { Pkt(DhcpInform, Vci("Mac-Y"), ChaddrHigh, ClientIp, <<>>, veo) :
      veo \in MainVeos }
  \cup { Pkt(DhcpInform, Vci("Mac-X"), ChaddrHigh, ClientIp, <<>>, veo) :
           veo \in { VeoList, VeoSelect(0, 5) } }
  \cup { Pkt(DhcpInform, Vci("Mac-Y"), ChaddrLow, ClientIp, <<>>, VeoList),
         Pkt(DhcpInform, <<"AAPLBSDPC">>, ChaddrHigh, ClientIp, <<>>,
             VeoList),
         Pkt(DhcpInform, Vci("Mac-Y"), ChaddrHigh, <<0, 0, 0, 0>>,
             RequestedIp, VeoList),
         Pkt(DhcpDiscover, Vci("Mac-Y"), ChaddrHigh, ClientIp, <<>>,
             VeoList),
         [Pkt(DhcpInform, Vci("Mac-Y"), ChaddrHigh, ClientIp, <<>>,
              VeoList) EXCEPT !.xid = <<0, 0, 0, 2>>, !.htype = <<6>>] }

\* The local 'packet' of main before the first assignment, and the None
\* GetNextDhcpPacket returns when its select times out.
Unbound == [kind |-> "unbound"]
None == [kind |-> "none"]

NoReply == [kind |-> "noreply"]

(* ---------------------------------------------------------------------- *)
(* State                                                                   *)
(* ---------------------------------------------------------------------- *)

VARIABLES
  nbiimages,        \* global: the catalog of the last scan
  defaultnbi,       \* global: default image id
  hasdefault,       \* global: an IsDefault image has been seen
  imagenameslist,   \* global: encoded image list of the last lookup
  serverpriority,   \* global: the two priority bytes chosen at startup
  packet,           \* main: the local 'packet'
  lastnbis,         \* the list the last lookup went through: nbiimages as
                    \* passed to getSysIdEntitlement, or (API mode) the
                    \* images array of the API's answer
  sent,             \* what the last loop iteration gave SendDhcpPacketTo
  up,               \* the process has not been ended by an exception
  walked,           \* the directory tree the last scan_nbis walked
  frame,            \* position and locals of the loop iteration under way
  tftpfiles,        \* API mode: the TFTP files present under tftprootpath
  fetch             \* API mode: what the last scan_nbis fetched and wrote

vars == <<nbiimages, defaultnbi, hasdefault, imagenameslist, serverpriority,
          packet, lastnbis, sent, dockervars, up, walked, frame,
          tftpfiles, fetch>>

\* No scan_nbis has run in API mode.
NoFetch == [kind |-> "none"]

\* No activation of ack is in progress.
Idle == [pc |-> "recv"]

Globals ==
  [defaultnbi |-> defaultnbi, hasdefault |-> hasdefault,
   imagenameslist |-> imagenameslist]

(* ---------------------------------------------------------------------- *)
(* main                                                                    *)
(* ---------------------------------------------------------------------- *)

\* The body of the second try block of the loop, run on pkt with catalog
\* nbis: the globals afterwards, the catalog ack looked at, and the
\* datagram handed to SendDhcpPacketTo (NoReply when none is).
Dispatch(pkt, nbis) ==
  LET nothing == [g |-> Globals, nbis |-> lastnbis, sent |-> NoReply]
      run(msgtype, defaultarg) ==
        Bind(ack(pkt, defaultarg, msgtype, nbis, Globals, serverpriority),
             LAMBDA r :
               IF r.raised
               THEN [g |-> r.g,
                     nbis |-> IF r.looked THEN nbis ELSE lastnbis,
                     sent |-> NoReply]
               ELSE [g |-> r.g, nbis |-> nbis,
                     sent |-> [kind |-> "reply", bsdpack |-> r.bsdpack,
                               ip |-> r.clientip, port |-> r.replyport]])
  IN  IF pkt.kind # "packet" THEN nothing
      ELSE LET veo == pkt.vendor_encapsulated_options
           IN  IF ~(Len(veo) > 1) THEN nothing
               ELSE IF Len(veo) < 3 THEN nothing
               ELSE IF veo[3] = 1 THEN run("list", defaultnbi)
               ELSE IF veo[3] = 2 THEN run("select", 0)
               ELSE nothing

Handle(pkt, nbis) ==
  \E d \in {Dispatch(pkt, nbis)} :
    /\ defaultnbi' = d.g.defaultnbi
    /\ hasdefault' = d.g.hasdefault
    /\ imagenameslist' = d.g.imagenameslist
    /\ lastnbis' = d.nbis
    /\ sent' = d.sent

Init ==
  /\ \E root \in NbiRoots :
       /\ getNbiOptions(root).ok
       /\ nbiimages = getNbiOptions(root).nbioptions
       /\ walked = root
  /\ defaultnbi = 0
  /\ hasdefault = FALSE
  /\ imagenameslist = <<>>
  /\ serverpriority \in PriorityPool
  /\ packet = Unbound
  /\ lastnbis = <<>>
  /\ sent = NoReply
  /\ dockervars = {}
  /\ up = TRUE
  /\ frame = Idle
  /\ tftpfiles = {}
  /\ fetch = NoFetch

\* One loop iteration: GetNextDhcpPacket returns p, which is handled.
Receive(p) ==
  /\ up
  /\ UNCHANGED <<tftpfiles, fetch>>
  /\ packet' = p
  /\ Handle(p, nbiimages)
  /\ UNCHANGED <<nbiimages, serverpriority, dockervars, up, walked, frame>>

\* One loop iteration: select() timed out, GetNextDhcpPacket returned None.
ReceiveTimeout ==
  /\ up
  /\ UNCHANGED <<tftpfiles, fetch>>
  /\ packet' = None
  /\ Handle(None, nbiimages)
  /\ UNCHANGED <<nbiimages, serverpriority, dockervars, up, walked, frame>>

\* SIGUSR1 while the loop is blocked in select(): select fails with
\* EINTR and scan_nbis runs on the way to the except clause.  When the scan
\* succeeds 'packet' keeps its value and is handled (again); when
\* getNbiOptions raises, no handler of main catches the exception and the
\* process ends.
RecvInterrupted(root) ==
  /\ up
  /\ UNCHANGED <<tftpfiles, fetch>>
  /\ walked' = root
  /\ \E scan \in {getNbiOptions(root)} :
       IF scan.ok
       THEN /\ nbiimages' = scan.nbioptions
            /\ Handle(packet, nbiimages')
            /\ UNCHANGED <<packet, serverpriority, dockervars, up, frame>>
       ELSE /\ up' = FALSE
            /\ UNCHANGED <<nbiimages, defaultnbi, hasdefault,
                           imagenameslist, serverpriority, packet,
                           lastnbis, sent, dockervars, frame>>

\* SIGUSR1 at the end of a loop iteration: scan_nbis replaces the catalog;
\* when getNbiOptions raises, the except clause of the loop swallows the
\* exception and nbiimages keeps its value.
scan_nbis(root) ==
  /\ up
  /\ UNCHANGED <<tftpfiles, fetch>>
  /\ walked' = root
  /\ \E scan \in {getNbiOptions(root)} :
       nbiimages' = IF scan.ok THEN scan.nbioptions ELSE nbiimages
  /\ UNCHANGED <<defaultnbi, hasdefault, imagenameslist, serverpriority,
                 packet, lastnbis, sent, dockervars, up, frame>>

Next ==
  \/ \E p \in PacketPool : Receive(p)
  \/ ReceiveTimeout
  \/ \E root \in NbiRoots : RecvInterrupted(root)
  \/ \E root \in NbiRoots : scan_nbis(root)

Spec == Init /\ [][Next]_vars

\* The loop without SIGUSR1: every iteration receives a packet or times
\* out.
NextServe ==
  \/ \E p \in PacketPool : Receive(p)
  \/ ReceiveTimeout

SpecServe == Init /\ [][NextServe]_vars

(* ---------------------------------------------------------------------- *)
(* The entitlement filter on its own: the server is started on a root      *)
(* with one .nbi directory, drawn from every combination of restriction    *)
(* lists, and handles its first LIST request.                              *)
(* ---------------------------------------------------------------------- *)

FilterSysIds == {"Mac-X", "Mac-Y", "Mac-Z"}

\* Client hardware addresses with bytes below 0x10 in several positions.
FilterChaddrs ==
  { <<b1, b2, 39, 221, 238, b6>> :
      b1 \in {0, 170}, b2 \in {10, 187}, b6 \in {1, 255} }

FilterPlists ==
  { Plist(6, TRUE, FALSE, <<70>>, "NetBoot", ensys, dissys, macs) :
      ensys \in SUBSET {"Mac-X", "Mac-Y"},
      dissys \in SUBSET {"Mac-X", "Mac-Y"},
      macs \in { M \in SUBSET { MacText(c) : c \in FilterChaddrs } :
                   Cardinality(M) <= MaxMacs } }

FilterPackets ==
  { Pkt(DhcpInform, Vci(sysid), chaddr, ClientIp, <<>>, VeoList) :
      sysid \in FilterSysIds, chaddr \in FilterChaddrs }

InitFilter ==
  /\ \E pl \in FilterPlists :
       /\ nbiimages = getNbiOptions(Tree(<<pl>>)).nbioptions
       /\ walked = Tree(<<pl>>)
  /\ defaultnbi = 0
  /\ hasdefault = FALSE
  /\ imagenameslist = <<>>
  /\ serverpriority \in PriorityPool
  /\ packet = Unbound
  /\ lastnbis = <<>>
  /\ sent = NoReply
  /\ dockervars = {}
  /\ up = TRUE
  /\ frame = Idle
  /\ tftpfiles = {}
  /\ fetch = NoFetch

\* The first loop iteration after startup, on a LIST request.
FirstList ==
  /\ packet = Unbound
  /\ \E p \in FilterPackets : Receive(p)

SpecFilter == InitFilter /\ [][FirstList]_vars

(* ---------------------------------------------------------------------- *)
(* The default image of a LIST reply on its own: the server runs on a root *)
(* with one .nbi directory, has answered one LIST request (which left the  *)
(* image's id in the global defaultnbi), has then seen GetNextDhcpPacket    *)
(* time out, and now answers a second LIST request.                        *)
(* ---------------------------------------------------------------------- *)

\* Values of the high and of the low byte of the image ids tried.
IdBytes == {0, 1, 15, 16, 128, 255}

DefaultIdPool == { 256 * hi + lo : hi \in IdBytes, lo \in IdBytes } \ {0}

ListPacket ==
  Pkt(DhcpInform, Vci("Mac-Y"), ChaddrHigh, ClientIp, <<>>, VeoList)

InitServed ==
  /\ \E id \in DefaultIdPool, isdefault \in BOOLEAN :
       /\ walked = Tree(<<Plist(id, TRUE, isdefault, <<65>>,
                                "NetBoot", {}, {}, {})>>)
       /\ nbiimages = getNbiOptions(walked).nbioptions
  /\ \E g \in { doEntitlementPostProcessing(
                   nbientitlements(nbiimages, "Mac-Y",
                                   chaddr_to_mac(ChaddrHigh)),
                   [defaultnbi |-> 0, hasdefault |-> FALSE,
                    imagenameslist |-> <<>>]) } :
       /\ defaultnbi = g.defaultnbi
       /\ hasdefault = g.hasdefault
       /\ imagenameslist = g.imagenameslist
  /\ serverpriority \in PriorityPool
  /\ packet = None
  /\ lastnbis = nbiimages
  /\ sent = NoReply
  /\ dockervars = {}
  /\ up = TRUE
  /\ frame = Idle
  /\ tftpfiles = {}
  /\ fetch = NoFetch

\* The loop iteration after the timeout, on a LIST request.
ListAgain ==
  /\ packet = None
  /\ Receive(ListPacket)

SpecDefault == InitServed /\ [][ListAgain]_vars

(* ---------------------------------------------------------------------- *)
(* API mode (BSDPY_API_URL set): every request queries the API, whose      *)
(* answer is an input of the loop iteration.                               *)
(* ---------------------------------------------------------------------- *)

NbiPath == <<"/", "a", ".", "n", "b", "i", "/", "a", ".", "d", "m", "g">>
PlainPath == <<"/", "a", "/", "a", ".", "d", "m", "g">>

\* The two orders in which the items of an entry are iterated here.
KeysNameFirst == <<"name", "priority", "booter_url", "root_dmg_url">>
KeysUrlFirst == <<"root_dmg_url", "booter_url", "priority", "name">>

\* One entry of the images array; name is a sequence of code points.
ApiImage(name, priority, host, path, keys) ==
  [keys |-> keys, name |-> name, priority |-> priority,
   booter_url |-> <<"/", "i", "/">> \o HexLower(priority),
   root_dmg_url |-> [scheme |-> <<"h", "t", "t", "p">>,
                     host |-> host, path |-> path]]

\* Entries: two valid ones (the second with a non-ASCII character in its
\* name and a host name to resolve), one with priority 0, two whose
\* root_dmg_url has no '.nbi', one whose host does not resolve.
ApiPool ==
  { ApiImage(<<65>>, 5, IpHost, NbiPath, KeysNameFirst),
    ApiImage(<<66, 233>>, 6, NamedHost, NbiPath, KeysUrlFirst),
    ApiImage(<<90>>, 0, IpHost, NbiPath, KeysNameFirst),
    ApiImage(<<78>>, 7, IpHost, PlainPath, KeysNameFirst),
    ApiImage(<<79>>, 8, IpHost, PlainPath, KeysUrlFirst),
    ApiImage(<<85>>, 9, UnknownHost, NbiPath, KeysNameFirst) }

\* Answers: the API cannot be reached, or an images array of at most
\* MaxCatalog different entries.
ApiResults ==
  { [status |-> "unreachable"] }
  \cup { [status |-> "ok", images |-> imgs] :
           imgs \in { q \in UNION { [1..n -> ApiPool] : n \in 0..MaxCatalog } :
                        \A i, j \in 1..Len(q) : i # j => q[i] # q[j] } }

ApiPackets ==
  { Pkt(DhcpInform, Vci("Mac-Y"), ChaddrHigh, ClientIp, <<>>, veo) :
      veo \in { VeoList, VeoSelect(0, 5), VeoSelect(0, 6),
                VeoSelect(0, 0) } }

InitApi ==
  /\ nbiimages = <<>>
  /\ walked = Tree(<<>>)
  /\ defaultnbi = 0
  /\ hasdefault = FALSE
  /\ imagenameslist = <<>>
  /\ serverpriority \in PriorityPool
  /\ packet = Unbound
  /\ lastnbis = <<>>
  /\ sent = NoReply
  /\ dockervars = {"BSDPY_API_URL"}
  /\ up = TRUE
  /\ frame = Idle
  /\ tftpfiles = {}
  /\ fetch = NoFetch

\* One loop iteration in API mode: p is received, the API answers result.
ReceiveApi(p, result) ==
  /\ up
  /\ UNCHANGED <<tftpfiles, fetch>>
  /\ useapiurl
  /\ packet' = p
  /\ Handle(p, result)
  /\ UNCHANGED <<nbiimages, serverpriority, dockervars, up, walked, frame>>

NextApi ==
  \/ \E p \in ApiPackets, result \in ApiResults : ReceiveApi(p, result)
  \/ ReceiveTimeout

SpecApi == InitApi /\ [][NextApi]_vars

(* ---------------------------------------------------------------------- *)
(* Rescans of a root in which .nbi directories can be unusable, or which   *)
(* cannot be read at all.                                                  *)
(* ---------------------------------------------------------------------- *)

\* The directory dir lacking what.
Unusable(dir, what) == [dir EXCEPT !.Missing = what]

\* The .nbi directories that can exist under the root, in walk order: two
\* complete ones (ids 4097 and 5), one without descriptor, a BootFileOnly
\* one without *.dmg (which needs none), a NetBoot one without *.dmg, one
\* without the kernel file, one whose descriptor has no Description key.
ScanDirs ==
  << NbiDirs[2],
     Unusable(NbiDirs[3], "NBImageInfo.plist"),
     NbiDirs[4],
     Unusable(NbiDirs[1], "dmg"),
     Unusable(Plist(8, TRUE, FALSE, <<68>>, "NetBoot", {}, {}, {}), "dmg"),
     Unusable(Plist(10, TRUE, FALSE, <<69>>, "NetBoot", {}, {}, {}),
              "BootFile"),
     Unusable(Plist(11, TRUE, FALSE, <<71>>, "NetBoot", {}, {}, {}),
              "Description") >>

\* The directories of dirs with index in S, in walk order.
RECURSIVE PickOf(_, _, _)
PickOf(dirs, S, i) ==
  IF i > Len(dirs) THEN <<>>
  ELSE (IF i \in S THEN <<dirs[i]>> ELSE <<>>) \o PickOf(dirs, S, i + 1)

\* What a scan can find: at most MaxCatalog of the directories, or a root
\* it cannot read.
ScanRoots ==
  { Tree(PickOf(ScanDirs, S, 1)) :
      S \in { T \in SUBSET (1..Len(ScanDirs)) :
                Cardinality(T) <= MaxCatalog } }
  \cup { [readable |-> FALSE, dirs |-> <<ScanDirs[1]>>] }

ScanPackets ==
  { ListPacket,
    Pkt(DhcpInform, Vci("Mac-X"), ChaddrLow, ClientIp, <<>>, VeoList),
    Pkt(DhcpInform, Vci("Mac-Y"), ChaddrHigh, ClientIp, <<>>,
        VeoSelect(0, 5)) }

\* The server is running: the scan at startup did not raise.
InitScan ==
  /\ \E root \in ScanRoots :
       /\ getNbiOptions(root).ok
       /\ nbiimages = getNbiOptions(root).nbioptions
       /\ walked = root
  /\ defaultnbi = 0
  /\ hasdefault = FALSE
  /\ imagenameslist = <<>>
  /\ serverpriority \in PriorityPool
  /\ packet = Unbound
  /\ lastnbis = <<>>
  /\ sent = NoReply
  /\ dockervars = {}
  /\ up = TRUE
  /\ frame = Idle
  /\ tftpfiles = {}
  /\ fetch = NoFetch

NextScan ==
  \/ \E p \in ScanPackets : Receive(p)
  \/ ReceiveTimeout
  \/ \E root \in ScanRoots : RecvInterrupted(root)
  \/ \E root \in ScanRoots : scan_nbis(root)

SpecScan == InitScan /\ [][NextScan]_vars

(* ---------------------------------------------------------------------- *)
(* The loop iteration step by step, with SIGUSR1 arriving at any point.    *)
(* signal.signal(SIGUSR1, scan_nbis) makes the interpreter run scan_nbis   *)
(* in the main thread between two bytecodes of whatever main is executing; *)
(* the interrupted code resumes when scan_nbis returns.  frame.pc is the   *)
(* position of the iteration: "recv" (in GetNextDhcpPacket), "dispatch"    *)
(* (packet taken, ack not yet called), "lookup" (getSysIdEntitlement       *)
(* iterating over its argument), "send" (ack has returned, the reply is    *)
(* not yet sent).  frame.fresh tells whether GetNextDhcpPacket returned    *)
(* in this iteration (TRUE) or was left by the exception of an interrupted *)
(* select, after which 'packet' still has the value of the iteration       *)
(* before (FALSE).                                                         *)
(* ---------------------------------------------------------------------- *)

\* The list object a running loop holds, after scan_nbis has assigned the
\* list scanned to the global: line 1017 binds the name nbiimages to a new
\* list (getNbiOptions starts from nbioptions = []) and does not modify
\* the list that was bound to it before.
HeldListOverwritten(held, scanned) == scanned

HeldList(held, scanned) == held

\* The branch main takes for pkt: "list", "select" or "none".
MsgType(pkt) ==
  IF pkt.kind # "packet" THEN "none"
  ELSE IF Len(pkt.vendor_encapsulated_options) < 3 THEN "none"
  ELSE IF pkt.vendor_encapsulated_options[3] = 1 THEN "list"
  ELSE IF pkt.vendor_encapsulated_options[3] = 2 THEN "select"
  ELSE "none"

\* Roots of the step-by-step runs: at most MaxCatalog of three complete
\* directories (ids 9, 4097, 5), or one root with a directory that lacks
\* its descriptor.
SigRoots ==
  { Tree(PickOf(<<NbiDirs[1], NbiDirs[2], NbiDirs[4]>>, S, 1)) :
      S \in { T \in SUBSET (1..3) : Cardinality(T) <= MaxCatalog } }
  \cup { Tree(<<ScanDirs[2]>>) }

SigPackets ==
  { ListPacket,
    Pkt(DhcpInform, Vci("Mac-Y"), ChaddrHigh, ClientIp, <<>>,
        VeoSelect(0, 5)),
    Pkt(DhcpInform, Vci("Mac-Y"), ChaddrHigh, ClientIp, <<>>, <<1, 1, 3>>),
    None }

InitSignal ==
  /\ \E root \in SigRoots :
       /\ getNbiOptions(root).ok
       /\ nbiimages = getNbiOptions(root).nbioptions
       /\ walked = root
  /\ defaultnbi = 0
  /\ hasdefault = FALSE
  /\ imagenameslist = <<>>
  /\ serverpriority = <<1, 255>>
  /\ packet = Unbound
  /\ lastnbis = <<>>
  /\ sent = NoReply
  /\ dockervars = {}
  /\ up = TRUE
  /\ frame = Idle
  /\ tftpfiles = {}
  /\ fetch = NoFetch

\* GetNextDhcpPacket returns p.
Take(p) ==
  /\ up
  /\ UNCHANGED <<tftpfiles, fetch>>
  /\ frame.pc = "recv"
  /\ packet' = p
  /\ sent' = NoReply
  /\ frame' = [pc |-> "dispatch", fresh |-> TRUE]
  /\ UNCHANGED <<nbiimages, defaultnbi, hasdefault, imagenameslist,
                 serverpriority, lastnbis, dockervars, up, walked>>

\* main up to the call of getSysIdEntitlement in ack: the arguments
\* defaultnbi and nbiimages are read here.  A packet that is not BSDP, or
\* on which ack raises before the lookup, ends the iteration.
CallLookup ==
  /\ up
  /\ UNCHANGED <<tftpfiles, fetch>>
  /\ frame.pc = "dispatch"
  /\ IF MsgType(packet) # "none"
        /\ ack(packet, 0, MsgType(packet), <<>>, Globals,
               serverpriority).looked
     THEN /\ frame' = [pc |-> "lookup", fresh |-> frame.fresh,
                       msgtype |-> MsgType(packet),
                       defaultarg |-> IF MsgType(packet) = "list"
                                      THEN defaultnbi ELSE 0,
                       nbisources |-> nbiimages,
                       seen |-> <<>>]
          /\ lastnbis' = nbiimages
     ELSE /\ frame' = Idle
          /\ lastnbis' = lastnbis
  /\ UNCHANGED <<nbiimages, defaultnbi, hasdefault, imagenameslist,
                 serverpriority, packet, sent, dockervars, up, walked>>

\* One iteration of 'for thisnbi in nbisources'.
LookAt ==
  /\ up
  /\ UNCHANGED <<tftpfiles, fetch>>
  /\ frame.pc = "lookup"
  /\ Len(frame.seen) < Len(frame.nbisources)
  /\ frame' = [frame EXCEPT
                 !.seen = Append(@, frame.nbisources[Len(@) + 1])]
  /\ UNCHANGED <<nbiimages, defaultnbi, hasdefault, imagenameslist,
                 serverpriority, packet, lastnbis, sent, dockervars, up,
                 walked>>

\* The loop is exhausted: the rest of ack, on the records it has seen.
Return ==
  /\ up
  /\ UNCHANGED <<tftpfiles, fetch>>
  /\ frame.pc = "lookup"
  /\ Len(frame.seen) >= Len(frame.nbisources)
  /\ \E r \in { ack(packet, frame.defaultarg, frame.msgtype, frame.seen,
                     Globals, serverpriority) } :
       /\ defaultnbi' = r.g.defaultnbi
       /\ hasdefault' = r.g.hasdefault
       /\ imagenameslist' = r.g.imagenameslist
       /\ frame' = IF r.raised THEN Idle
                   ELSE [pc |-> "send", fresh |-> frame.fresh,
                         seen |-> frame.seen,
                         reply |-> [kind |-> "reply",
                                    bsdpack |-> r.bsdpack,
                                    ip |-> r.clientip,
                                    port |-> r.replyport]]
  /\ UNCHANGED <<nbiimages, serverpriority, packet, lastnbis, sent,
                 dockervars, up, walked>>

\* server.SendDhcpPacketTo
Send ==
  /\ up
  /\ UNCHANGED <<tftpfiles, fetch>>
  /\ frame.pc = "send"
  /\ sent' = frame.reply
  /\ frame' = Idle
  /\ UNCHANGED <<nbiimages, defaultnbi, hasdefault, imagenameslist,
                 serverpriority, packet, lastnbis, dockervars, up, walked>>

\* SIGUSR1: scan_nbis runs wherever the iteration is.  In select() the
\* call fails with EINTR and the (old) packet is dispatched; elsewhere the
\* iteration resumes.  When getNbiOptions raises, the exception ends the
\* process if the loop was in GetNextDhcpPacket and is swallowed by the
\* except clause of the loop, which ends the iteration, otherwise.
Signal(root) ==
  /\ up
  /\ UNCHANGED <<tftpfiles, fetch>>
  /\ walked' = root
  /\ \E scan \in {getNbiOptions(root)} :
       IF scan.ok
       THEN /\ nbiimages' = scan.nbioptions
            /\ frame' =
                 IF frame.pc = "recv"
                 THEN [pc |-> "dispatch", fresh |-> FALSE]
                 ELSE IF frame.pc = "lookup"
                 THEN [frame EXCEPT
                         !.nbisources = HeldList(@, scan.nbioptions)]
                 ELSE frame
            /\ up' = up
       ELSE /\ nbiimages' = nbiimages
            /\ frame' = Idle
            /\ up' = (frame.pc # "recv")
  /\ UNCHANGED <<defaultnbi, hasdefault, imagenameslist, serverpriority,
                 packet, lastnbis, sent, dockervars>>

NextSignal ==
  \/ \E p \in SigPackets : Take(p)
  \/ CallLookup
  \/ LookAt
  \/ Return
  \/ Send
  \/ \E root \in SigRoots : Signal(root)

SpecSignal == InitSignal /\ [][NextSignal]_vars

(* ---------------------------------------------------------------------- *)
(* scan_nbis in API mode: the standard TFTP files of every image the API   *)
(* lists are fetched into tftprootpath unless they are already there.      *)
(* The directories (find, mkpath) are not part of the state: mkpath        *)
(* creates what is missing and leaves an existing directory alone.         *)
(* ---------------------------------------------------------------------- *)

nbitftpitems ==
  << <<"i", "/", "b">>,
     <<"i", "/", "B", ".", "p">>,
     <<"i", "/", "P", ".", "p">>,
     <<"i", "/", "x", "/", "k">> >>

\* s.lstrip('/')
RECURSIVE Lstrip(_)
Lstrip(s) ==
  IF Len(s) > 0 /\ Head(s) = "/" THEN Lstrip(Tail(s)) ELSE s

\* s.rstrip('/')
RECURSIVE Rstrip(_)
Rstrip(s) ==
  IF Len(s) > 0 /\ s[Len(s)] = "/" THEN Rstrip(SubSeq(s, 1, Len(s) - 1))
  ELSE s

\* os.path.dirname(p): p up to its last '/', without trailing slashes
\* unless it consists of slashes only.
Dirname(p) ==
  LET slashes == { i \in 1..Len(p) : p[i] = "/" }
      i == IF slashes = {} THEN 0
           ELSE CHOOSE m \in slashes : \A n \in slashes : n <= m
      head == SubSeq(p, 1, i)
  IN  IF Rstrip(head) = <<>> THEN head ELSE Rstrip(head)

\* os.path.join(a, b)
os_path_join(a, b) ==
  IF Len(b) > 0 /\ Head(b) = "/" THEN b
  ELSE IF Len(a) = 0 \/ a[Len(a)] = "/" THEN a \o b
  ELSE a \o <<"/">> \o b

\* urlunsplit((scheme, netloc, path, '', ''))
urlunsplit(scheme, netloc, path) ==
  scheme \o <<":", "/", "/">> \o netloc
  \o (IF Len(path) > 0 /\ Head(path) # "/" THEN <<"/">> ELSE <<>>)
  \o path

\* os.path.exists(target), on the files present.
CachedNever(target, files) == FALSE

Cached(target, files) == target \in files

\* The answer of the server to requests.get(fname): "200", another HTTP
\* status, or "down" (no connection: requests.get raises).
Status(u, fname) ==
  IF \E f \in u.failing : f.url = fname
  THEN (CHOOSE f \in u.failing : f.url = fname).status
  ELSE "200"

\* download(fname, destination) in state st of the pass: whatever body the
\* response has is written to destination; the status is not looked at.
download(u, fname, destination, st) ==
  IF Status(u, fname) = "down"
  THEN [st EXCEPT !.requested = Append(@, fname), !.raised = TRUE]
  ELSE [st EXCEPT !.requested = Append(@, fname),
                  !.received = @ \cup {fname},
                  !.written = @ \cup {destination},
                  !.files = @ \cup {destination}]

\* The loop 'for tftpitem in nbitftpitems' for one source.
RECURSIVE FetchItems(_, _, _, _)
FetchItems(u, source, items, st) ==
  IF Len(items) = 0 \/ st.raised THEN st
  ELSE LET rsrcpath == Lstrip(Dirname(source.path))
           baseurl == urlunsplit(source.scheme, source.host, rsrcpath)
           targettftpitem ==
             os_path_join(os_path_join(tftprootpath, rsrcpath),
                          Head(items))
       IN  FetchItems(u, source, Tail(items),
             IF Cached(targettftpitem, st.files) THEN st
             ELSE download(u, baseurl \o <<"/">> \o Head(items),
                           targettftpitem, st))

\* The loop 'for source in nbisources'.
RECURSIVE FetchSources(_, _, _)
FetchSources(u, nbisources, st) ==
  IF Len(nbisources) = 0 \/ st.raised THEN st
  ELSE FetchSources(u, Tail(nbisources),
                    FetchItems(u, Head(nbisources), nbitftpitems, st))

\* getNbiFromApi({'all': True}): the root_dmg_url of every listed image
\* that contains '.nbi'.
RECURSIVE AllSources(_)
AllSources(images) ==
  IF Len(images) = 0 THEN <<>>
  ELSE LET url == Head(images).root_dmg_url
       IN  (IF Contains(UrlText(url.scheme, url.host, url.path),
                        <<".", "n", "b", "i">>)
            THEN <<url>> ELSE <<>>)
           \o AllSources(Tail(images))

\* One pass of scan_nbis in API mode with upstream state u (the answer of
\* the API and the state of the file server) and the local files given.
PrefetchRun(u, files) ==
  LET st0 == [files |-> files, requested |-> <<>>, received |-> {},
              written |-> {}, raised |-> FALSE]
  IN  IF u.api.status # "ok" THEN [st0 EXCEPT !.raised = TRUE]
      ELSE FetchSources(u, AllSources(u.api.images), st0)

BNbiPath == <<"/", "b", ".", "n", "b", "i", "/", "b", ".", "d", "m", "g">>

\* Images the API lists: a.nbi and b.nbi on one host, a.nbi on a second
\* host, and one whose URL has no '.nbi'.
FetchImages ==
  << ApiImage(<<65>>, 5, IpHost, NbiPath, KeysNameFirst),
     ApiImage(<<66>>, 6, IpHost, BNbiPath, KeysNameFirst),
     ApiImage(<<67>>, 7, NamedHost, NbiPath, KeysNameFirst),
     ApiImage(<<78>>, 8, IpHost, PlainPath, KeysNameFirst) >>

FetchCatalogs ==
  { <<>>, <<FetchImages[1]>>, <<FetchImages[1], FetchImages[2]>>,
    <<FetchImages[2], FetchImages[1]>>,
    <<FetchImages[3], FetchImages[2]>>,
    <<FetchImages[4], FetchImages[1]>> }

\* The URL scan_nbis requests for item i of image n of FetchImages.
ItemUrl(n, i) ==
  urlunsplit(FetchImages[n].root_dmg_url.scheme,
             FetchImages[n].root_dmg_url.host,
             Lstrip(Dirname(FetchImages[n].root_dmg_url.path)))
  \o <<"/">> \o nbitftpitems[i]

\* File server states: everything is served, or one file is answered with
\* HTTP 404, or the connection for one file fails.
FetchFailings ==
  { {} }
  \cup { {[url |-> ItemUrl(n, i), status |-> st]} :
           n \in {1, 2}, i \in {1, 3}, st \in {"404", "down"} }

Upstreams ==
  { [api |-> [status |-> "unreachable"], failing |-> {}] }
  \cup { [api |-> [status |-> "ok", images |-> c], failing |-> f] :
           c \in FetchCatalogs, f \in FetchFailings }

InitPrefetch ==
  /\ nbiimages = <<>>
  /\ walked = Tree(<<>>)
  /\ defaultnbi = 0
  /\ hasdefault = FALSE
  /\ imagenameslist = <<>>
  /\ serverpriority = <<1, 255>>
  /\ packet = Unbound
  /\ lastnbis = <<>>
  /\ sent = NoReply
  /\ dockervars = {"BSDPY_API_URL"}
  /\ up = TRUE
  /\ frame = Idle
  /\ tftpfiles = {}
  /\ fetch = NoFetch

\* scan_nbis in API mode with upstream state u, at startup or on SIGUSR1.
\* An exception ends the process when it is raised at startup or while the
\* loop is in GetNextDhcpPacket (inselect) and is swallowed by the except
\* clause of the loop otherwise; after an interrupted select the loop
\* goes on to handle 'packet' (which queries the API only when 'packet'
\* is a packet).  fetch.rerun: the pass before this one had
\* the same upstream state and left the files this pass found.
Prefetch(u, inselect) ==
  /\ up' = ~(PrefetchRun(u, tftpfiles).raised /\ inselect)
  /\ useapiurl
  /\ \E r \in {PrefetchRun(u, tftpfiles)} :
       /\ tftpfiles' = r.files
       /\ fetch' = [kind |-> "run", upstream |-> u, before |-> tftpfiles,
                    requested |-> r.requested, received |-> r.received,
                    written |-> r.written, raised |-> r.raised,
                    rerun |-> /\ fetch.kind = "run"
                              /\ fetch.upstream = u]
       /\ IF inselect /\ ~r.raised
          THEN \E result \in (IF packet.kind = "packet" THEN ApiResults
                               ELSE {[status |-> "unreachable"]}) :
                 Handle(packet, result)
          ELSE UNCHANGED <<defaultnbi, hasdefault, imagenameslist,
                           lastnbis, sent>>
  /\ up
  /\ UNCHANGED <<nbiimages, serverpriority, packet, dockervars, walked,
                 frame>>

NextPrefetch == \E u \in Upstreams, inselect \in BOOLEAN : Prefetch(u, inselect)

SpecPrefetch == InitPrefetch /\ [][NextPrefetch]_vars

(* ---------------------------------------------------------------------- *)
(* The first LIST request after startup, for every order in which os.walk  *)
(* can yield the .nbi directories of the root.                             *)
(* ---------------------------------------------------------------------- *)

\* Roots with at most MaxCatalog of the directories NbiDirs, in any order.
OrderRoots ==
  { Tree(q) : q \in { r \in UNION { [1..n -> { NbiDirs[i] : i \in 1..Len(NbiDirs) }] :
                                      n \in 0..MaxCatalog } :
                        \A i, j \in 1..Len(r) : i # j => r[i] # r[j] } }

OrderPackets ==
  { ListPacket,
    Pkt(DhcpInform, Vci("Mac-X"), ChaddrLow, ClientIp, <<>>, VeoList) }

InitOrder ==
  /\ \E root \in OrderRoots :
       /\ getNbiOptions(root).ok
       /\ nbiimages = getNbiOptions(root).nbioptions
       /\ walked = root
  /\ defaultnbi = 0
  /\ hasdefault = FALSE
  /\ imagenameslist = <<>>
  /\ serverpriority \in PriorityPool
  /\ packet = Unbound
  /\ lastnbis = <<>>
  /\ sent = NoReply
  /\ dockervars = {}
  /\ up = TRUE
  /\ frame = Idle
  /\ tftpfiles = {}
  /\ fetch = NoFetch

FirstListOrder ==
  /\ packet = Unbound
  /\ \E p \in OrderPackets : Receive(p)

SpecOrder == InitOrder /\ [][FirstListOrder]_vars

(* ---------------------------------------------------------------------- *)
(* Catalogs with long image names: Name of 1, 255 and 256 bytes.           *)
(* ---------------------------------------------------------------------- *)

\* A name of n bytes.
NameOf(n) == [i \in 1..n |-> 65]

LongDirs ==
  << Plist(5, TRUE, TRUE, NameOf(1), "NetBoot", {}, {"Mac-X"}, {}),
     Plist(6, TRUE, FALSE, NameOf(255), "NetBoot", {}, {}, {}),
     Plist(7, TRUE, FALSE, NameOf(256), "NetBoot", {}, {"Mac-X"}, {}),
     Plist(8, FALSE, FALSE, NameOf(256), "NetBoot", {}, {}, {}) >>

LongRoots ==
  { Tree(PickOf(LongDirs, S, 1)) :
      S \in { T \in SUBSET (1..Len(LongDirs)) :
                Cardinality(T) <= MaxCatalog } }

LongPackets ==
  { ListPacket,
    Pkt(DhcpInform, Vci("Mac-X"), ChaddrLow, ClientIp, <<>>, VeoList),
    Pkt(DhcpInform, Vci("Mac-Y"), ChaddrHigh, ClientIp, <<>>,
        VeoSelect(0, 7)) }

InitLong ==
  /\ \E root \in LongRoots :
       /\ getNbiOptions(root).ok
       /\ nbiimages = getNbiOptions(root).nbioptions
       /\ walked = root
  /\ defaultnbi = 0
  /\ hasdefault = FALSE
  /\ imagenameslist = <<>>
  /\ serverpriority \in PriorityPool
  /\ packet = Unbound
  /\ lastnbis = <<>>
  /\ sent = NoReply
  /\ dockervars = {}
  /\ up = TRUE
  /\ frame = Idle
  /\ tftpfiles = {}
  /\ fetch = NoFetch

NextLong ==
  \/ \E p \in LongPackets : Receive(p)
  \/ \E root \in LongRoots : scan_nbis(root)

SpecLong == InitLong /\ [][NextLong]_vars

(* ---------------------------------------------------------------------- *)
(* Reading requests and replies (used by the properties below)             *)
(* ---------------------------------------------------------------------- *)

\* The last loop iteration handled a request and sent a reply to it.
Replied == packet.kind = "packet" /\ sent.kind = "reply"

ReplyVeo == sent.bsdpack.vendor_encapsulated_options

\* The reply is a BSDP[LIST] / BSDP[SELECT] ACK.
ListReplied == Replied /\ ReplyVeo[3] = 1
SelectReplied == Replied /\ ReplyVeo[3] = 2

\* The client identity the request states.
ClientSysId == packet.vendor_class_identifier[3]
ClientMac == MacText(packet.chaddr)

\* The default_boot_image id a LIST reply carries (0: no sub-option 7).
ReplyHasDefault == Len(ReplyVeo) >= 13 /\ ReplyVeo[8] = 7
ReplyDefault ==
  IF ReplyHasDefault THEN ReplyVeo[12] * 256 + ReplyVeo[13] ELSE 0

\* The boot_image_list sub-option of a LIST reply, header included.
ReplyImageList ==
  SubSeq(ReplyVeo, IF ReplyHasDefault THEN 14 ELSE 8, Len(ReplyVeo))

\* The image ids listed by entries [129, 0, hi, lo, len, name...].
RECURSIVE EntryIds(_)
EntryIds(bytes) ==
  IF Len(bytes) < 5 THEN {}
  ELSE {bytes[3] * 256 + bytes[4]}
       \cup EntryIds(SubSeq(bytes, 6 + bytes[5], Len(bytes)))

ReplyIds == EntryIds(SubSeq(ReplyImageList, 3, Len(ReplyImageList)))

\* The records the filter admitted for the request of the last iteration.
Admitted == nbientitlements(lastnbis, ClientSysId, chaddr_to_mac(packet.chaddr))

SeqIds(ents) == { ents[i].id : i \in 1..Len(ents) }
DefaultIds(ents) == { ents[i].id : i \in { j \in 1..Len(ents) : ents[j].isdefault } }
MaxOf(S) == CHOOSE m \in S : \A x \in S : x <= m

\* max{id : admitted, is_default}, else max{id : admitted}, else 0.
ExpectedDefault(ents) ==
  IF DefaultIds(ents) # {} THEN MaxOf(DefaultIds(ents))
  ELSE IF SeqIds(ents) # {} THEN MaxOf(SeqIds(ents))
  ELSE 0

(* ---------------------------------------------------------------------- *)
(* C1                                                                      *)
(* ---------------------------------------------------------------------- *)

\* C1: every LIST reply carries as default id the maximum id among the
\* records admitted for this request that are is_default, else the maximum
\* admitted id, else none (0), whatever was handled before.
C1_DefaultOfThisRequest ==
  ListReplied => ReplyDefault = ExpectedDefault(Admitted)

(* ---------------------------------------------------------------------- *)
(* C3                                                                      *)
(* ---------------------------------------------------------------------- *)

RequestVeo == packet.vendor_encapsulated_options

\* The request is a SELECT that names an image id in selected_boot_image.
SelectRequested ==
  /\ packet.kind = "packet"
  /\ Len(RequestVeo) = 9
  /\ SubSeq(RequestVeo, 1, 5) = <<1, 1, 2, 8, 4>>

SelectedId == RequestVeo[8] * 256 + RequestVeo[9]

\* C3: a SELECT whose selected id matches no record admitted for the
\* client gets no reply.
C3_UnknownSelectDropped ==
  (SelectRequested /\ SelectedId \notin SeqIds(Admitted)) => sent = NoReply

(* ---------------------------------------------------------------------- *)
(* C4                                                                      *)
(* ---------------------------------------------------------------------- *)

\* C4: when a LIST request identical to the one just answered is handled
\* against the same catalog snapshot, its reply is identical to the
\* previous reply.
C4_SameListSameReply ==
  [][ (/\ ListReplied
       /\ packet' = packet
       /\ lastnbis' = lastnbis
       /\ sent'.kind = "reply")
      => sent' = sent ]_vars

(* ---------------------------------------------------------------------- *)
(* C5                                                                      *)
(* ---------------------------------------------------------------------- *)

\* C5: a LIST reply for which no record is admitted carries no
\* default_boot_image sub-option and the image list 09 00, i.e. its
\* vendor options are exactly 01 01 01 04 02 P0 P1 09 00.
C5_EmptyListNoDefault ==
  (ListReplied /\ Admitted = <<>>)
    => ReplyVeo = <<1, 1, 1, 4, 2>> \o serverpriority \o <<9, 0>>

(* ---------------------------------------------------------------------- *)
(* C6                                                                      *)
(* ---------------------------------------------------------------------- *)

\* C6: a packet whose vendor options do not start with the message_type
\* sub-option [1, 1, t], t in {1, 2}, gets no reply.
C6_OnlyMessageTypeFirst ==
  (/\ packet.kind = "packet"
   /\ ~(/\ Len(RequestVeo) >= 3
        /\ RequestVeo[1] = 1
        /\ RequestVeo[2] = 1
        /\ RequestVeo[3] \in {1, 2}))
    => sent = NoReply

(* ---------------------------------------------------------------------- *)
(* C8                                                                      *)
(* ---------------------------------------------------------------------- *)

\* The request carries (only) message_type and reply_port [b0, b1].
PortRequested ==
  /\ packet.kind = "packet"
  /\ Len(RequestVeo) = 7
  /\ SubSeq(RequestVeo, 1, 5) = <<1, 1, 1, 5, 2>>

\* C8: a reply to a request with reply_port bytes [b0, b1] is sent to
\* port 256*b0 + b1.
C8_ReplyPortBigEndian ==
  (PortRequested /\ sent.kind = "reply")
    => sent.port = 256 * RequestVeo[6] + RequestVeo[7]

(* ---------------------------------------------------------------------- *)
(* C2, C7, C9, C10: the entitlement filter                                 *)
(* ---------------------------------------------------------------------- *)

\* The records of the catalog the last lookup went through.
Looked == { lastnbis[i] : i \in 1..Len(lastnbis) }

\* C2: a record whose allowed_system_ids is non-empty and does not contain
\* the client's system_id is not listed in the LIST reply.
C2_AllowListEnforced ==
  ListReplied =>
    \A nbi \in Looked :
      (nbi.enabledsysids # {} /\ ClientSysId \notin nbi.enabledsysids)
        => nbi.id \notin ReplyIds

C9_ListedMacAdmitted ==
  ListReplied =>
    \A nbi \in Looked :
      (/\ nbi.enabledsysids = {}
       /\ nbi.disabledsysids = {}
       /\ ClientMac \in nbi.enabledmacaddrs)
        => nbi.id \in ReplyIds

\* C10: a record with a non-empty allowed MAC list that does not contain
\* the client's MAC is not listed, whatever its system-id lists are.
C10_MacAllowListEnforced ==
  ListReplied =>
    \A nbi \in Looked :
      (nbi.enabledmacaddrs # {} /\ ClientMac \notin nbi.enabledmacaddrs)
        => nbi.id \notin ReplyIds

\* C10: a client whose MAC is not on the non-empty MAC list of a record
\* that its system-id lists would admit got an empty image list.
C10_Witness ==
  /\ ListReplied
  /\ ReplyIds = {}
  /\ \E nbi \in Looked :
       /\ nbi.enabledmacaddrs # {}
       /\ ClientMac \notin nbi.enabledmacaddrs
       /\ ClientSysId \in nbi.enabledsysids
       /\ ClientSysId \notin nbi.disabledsysids

(* ---------------------------------------------------------------------- *)
(* C11                                                                     *)
(* ---------------------------------------------------------------------- *)

\* C11: whenever the default id handed to the LIST encoder (the global
\* defaultnbi as main reads it for the call of ack) is non-zero, the reply
\* carries the sub-option [7, 4, 0x81, 0x00, hi, lo] with hi*256+lo equal
\* to that id.
C11_NonZeroDefaultSent ==
  [][ (ListReplied' /\ defaultnbi # 0)
      => /\ Len(ReplyVeo') >= 13
         /\ SubSeq(ReplyVeo', 8, 13)
              = <<7, 4, 129, 0, defaultnbi \div 256, defaultnbi % 256>> ]_vars

(* ---------------------------------------------------------------------- *)
(* C12, C13: the SELECT reply                                              *)
(* ---------------------------------------------------------------------- *)

\* The request is a SELECT for the id of a record admitted for the client.
SelectMatched == SelectRequested /\ SelectedId \in SeqIds(Admitted)

\* C12: a SELECT whose selected id matches a record admitted for the
\* client (of any kind, BootFileOnly included) is answered with the vendor
\* options [1, 1, 2, 8, 4] followed by the four selected_boot_image bytes
\* of the request.
C12_SelectEchoesImage ==
  SelectMatched =>
    /\ sent.kind = "reply"
    /\ ReplyVeo = <<1, 1, 2, 8, 4>> \o SubSeq(RequestVeo, 6, 9)

\* C13: in the reply to a SELECT that matches an admitted record, file is
\* the record's booter path NUL-padded to exactly 128 bytes, root_path
\* begins with basedmgpath, and is basedmgpath + dmg when the record has a
\* disk image.
C13_SelectFileAndRootPath ==
  (SelectMatched /\ sent.kind = "reply") =>
    \E i \in 1..Len(Admitted) :
      /\ Admitted[i].id = SelectedId
      /\ Len(sent.bsdpack.file) = 128
      /\ sent.bsdpack.file = Ljust(Admitted[i].booter, 128)
      /\ Len(sent.bsdpack.root_path) >= Len(basedmgpath)
      /\ SubSeq(sent.bsdpack.root_path, 1, Len(basedmgpath)) = basedmgpath
      /\ ("dmg" \in DOMAIN Admitted[i]
            => sent.bsdpack.root_path = basedmgpath \o Admitted[i].dmg)

(* ---------------------------------------------------------------------- *)
(* C14                                                                     *)
(* ---------------------------------------------------------------------- *)

\* The request is a LIST request.
ListRequested == packet.kind = "packet" /\ RequestVeo = VeoList

\* The records the LIST reply of the last iteration was built from.
Listed == IF useapiurl THEN getNbiFromApi(lastnbis).nbis ELSE Admitted

RECURSIVE SumNames(_)
SumNames(ents) ==
  IF Len(ents) = 0 THEN 0 ELSE Len(Head(ents).name) + SumNames(Tail(ents))

\* C14: parseOptions decodes the vendor options of every LIST reply into
\* exactly message_type = [1], a 2-byte server_priority, optionally a
\* 4-byte default_boot_image, and a boot_image_list; the length byte of the
\* image list is 5*N + the sum of the name lengths and is the number of
\* bytes that follow it.
C14_ListReplyDecodes ==
  ListReplied =>
    LET d == parseOptions(ReplyVeo) IN
    /\ d.ok
    /\ DOMAIN d.optionvalues
         \in { {"message_type", "server_priority", "boot_image_list"},
               {"message_type", "server_priority", "default_boot_image",
                "boot_image_list"} }
    /\ d.optionvalues["message_type"] = <<1>>
    /\ Len(d.optionvalues["server_priority"]) = 2
    /\ ("default_boot_image" \in DOMAIN d.optionvalues
          => Len(d.optionvalues["default_boot_image"]) = 4)
    /\ ReplyImageList[1] = 9
    /\ ReplyImageList[2] = 5 * Len(Listed) + SumNames(Listed)
    /\ ReplyImageList[2] = Len(ReplyImageList) - 2

(* ---------------------------------------------------------------------- *)
(* C16                                                                     *)
(* ---------------------------------------------------------------------- *)

\* An entry whose root_dmg_url references an .nbi directory on a host that
\* is a literal address or resolves.
ValidImage(v) ==
  /\ Contains(UrlText(v.root_dmg_url.scheme, v.root_dmg_url.host,
                      v.root_dmg_url.path), <<".", "n", "b", "i">>)
  /\ gethostbyname(v.root_dmg_url.host).ok

\* C16: for every answer of the API, getNbiFromApi returns a record for
\* each valid entry of the images array, whatever other entries (without
\* '.nbi', or unresolvable) come before or after it.
C16_ValidEntriesKept ==
  (useapiurl /\ ListRequested /\ lastnbis.status = "ok") =>
    /\ getNbiFromApi(lastnbis).ok
    /\ \A i \in 1..Len(lastnbis.images) :
         ValidImage(lastnbis.images[i])
           => lastnbis.images[i].priority
                \in SeqIds(getNbiFromApi(lastnbis).nbis)

(* ---------------------------------------------------------------------- *)
(* C20                                                                     *)
(* ---------------------------------------------------------------------- *)

\* C20: no reply carries image id 0: not in an entry of the image list
\* nor as default_boot_image of a LIST reply, nor as selected_boot_image
\* of a SELECT reply.
C20_NoImageIdZero ==
  /\ ListReplied => (0 \notin ReplyIds /\ (ReplyHasDefault => ReplyDefault # 0))
  /\ (SelectReplied /\ Len(ReplyVeo) >= 9)
       => ReplyVeo[8] * 256 + ReplyVeo[9] # 0

(* ---------------------------------------------------------------------- *)
(* C15, C17: rescans                                                       *)
(* ---------------------------------------------------------------------- *)

\* The .nbi directory has all a record needs and its descriptor does not
\* make the scan drop it.
UsableDir(dir) ==
  /\ \/ dir.Missing = "none"
     \/ dir.Missing = "dmg" /\ dir.Type = "BootFileOnly"
  /\ dir.Index # 0
  /\ dir.IsEnabled

\* C15: the catalog produced by a scan holds the record of every usable
\* .nbi directory the scan walked, whatever unusable directories it
\* walked as well.
C15_UsableCandidatesLoaded ==
  \A i \in 1..Len(os_walk(walked)) :
    UsableDir(os_walk(walked)[i])
      => \E j \in 1..Len(nbiimages) :
           nbiimages[j] = ThisNbi(os_walk(walked)[i])

\* C17: a rescan of a root that cannot be read leaves the catalog as it
\* was and the server running.
C17_FailedRescanKeepsCatalog ==
  [][ ~walked'.readable => (nbiimages' = nbiimages /\ up') ]_vars

(* ---------------------------------------------------------------------- *)
(* C18, C19: rescan and request handling                                   *)
(* ---------------------------------------------------------------------- *)

\* C18: between the receipt of a packet and the sending (or dropping) of
\* its reply no scan_nbis runs: the catalog and the tree last walked do
\* not change while an iteration is past GetNextDhcpPacket.
C18_NoScanWhileHandling ==
  [][ frame.pc \in {"dispatch", "lookup", "send"}
      => (nbiimages' = nbiimages /\ walked' = walked) ]_vars

\* C19: the list an entitlement lookup iterates over is, from its first
\* to its last record, the complete catalog of one scan, the one that was
\* in effect when the lookup was called, whenever rescans arrive: the
\* records seen so far are a prefix of it, and all of it when ack returns.
C19_LookupSeesOneCatalog ==
  /\ frame.pc = "lookup" =>
       /\ frame.nbisources = lastnbis
       /\ Len(frame.seen) <= Len(lastnbis)
       /\ frame.seen = SubSeq(lastnbis, 1, Len(frame.seen))
  /\ frame.pc = "send" => frame.seen = lastnbis
  /\ frame.pc \in {"lookup", "send"} =>
       \E root \in SigRoots :
         /\ getNbiOptions(root).ok
         /\ lastnbis = getNbiOptions(root).nbioptions

\* C19: ack has returned from a lookup over a catalog of two records
\* during which a rescan replaced the catalog.
C19_Witness ==
  /\ frame.pc = "send"
  /\ Len(frame.seen) >= 2
  /\ frame.seen = lastnbis
  /\ nbiimages # lastnbis

(* ---------------------------------------------------------------------- *)
(* C21, C22: the prefetch pass                                             *)
(* ---------------------------------------------------------------------- *)

\* The files scan_nbis wants under tftprootpath for the images listed.
Wanted(images) ==
  { os_path_join(os_path_join(tftprootpath,
                              Lstrip(Dirname(AllSources(images)[n].path))),
                 nbitftpitems[i]) :
      n \in 1..Len(AllSources(images)), i \in 1..Len(nbitftpitems) }

\* C21: a prefetch pass that follows a pass with the same upstream state,
\* on the files that pass left, receives no response body and writes no
\* file.
C21_PrefetchIdempotent ==
  (fetch.kind = "run" /\ fetch.rerun)
    => (fetch.received = {} /\ fetch.written = {}
        /\ tftpfiles = fetch.before)

\* C21: a second pass over two listed images whose eight files the first
\* pass fetched.
C21_Witness ==
  /\ fetch.kind = "run"
  /\ fetch.rerun
  /\ fetch.upstream.api.status = "ok"
  /\ Cardinality(Wanted(fetch.upstream.api.images)) = 8
  /\ Wanted(fetch.upstream.api.images) \subseteq fetch.before

\* C22: a pass in which a fetch failed has still requested every file
\* that was wanted and not present, and the file whose fetch failed is not
\* present afterwards.
C22_FetchFailureIsolated ==
  (fetch.kind = "run" /\ fetch.upstream.api.status = "ok") =>
    /\ \A n \in 1..Len(AllSources(fetch.upstream.api.images)),
          i \in 1..Len(nbitftpitems) :
         LET src == AllSources(fetch.upstream.api.images)[n]
             rsrcpath == Lstrip(Dirname(src.path))
             target == os_path_join(os_path_join(tftprootpath, rsrcpath),
                                    nbitftpitems[i])
             url == urlunsplit(src.scheme, src.host, rsrcpath)
                    \o <<"/">> \o nbitftpitems[i]
         IN  /\ target \in fetch.before
                \/ \E k \in 1..Len(fetch.requested) :
                     fetch.requested[k] = url
                \/ \E m \in 1..Len(AllSources(fetch.upstream.api.images)) :
                     /\ m # n
                     /\ target \in fetch.written
             /\ (url \in { fetch.requested[k] :
                             k \in 1..Len(fetch.requested) }
                 /\ Status(fetch.upstream, url) # "200")
                => target \notin tftpfiles

(* ---------------------------------------------------------------------- *)
(* C23, C24, C25: address, message type and envelope of a reply            *)
(* ---------------------------------------------------------------------- *)

\* The codes of the sub-options of blob veo, decoded from position i on.
RECURSIVE TlvCodes(_, _)
TlvCodes(veo, i) ==
  IF i + 1 > Len(veo) THEN {}
  ELSE {veo[i]} \cup TlvCodes(veo, i + 2 + veo[i + 1])

\* C23: a reply goes to the request's ciaddr when that is not 0.0.0.0 and
\* to its requested IP address when it is, and to port 68 when the request
\* has no reply_port sub-option (code 5).
C23_ReplyAddress ==
  Replied =>
    /\ sent.ip = IF packet.ciaddr # <<0, 0, 0, 0>> THEN packet.ciaddr
                 ELSE packet.request_ip_address
    /\ 5 \notin TlvCodes(RequestVeo, 1) => sent.port = 68

\* C23: a request with ciaddr 0.0.0.0 has been answered to the address it
\* asked for, port 68.
C23_Witness ==
  /\ Replied
  /\ packet.ciaddr = <<0, 0, 0, 0>>
  /\ sent.ip = RequestedIp
  /\ sent.port = 68

\* C24: the vendor options of every reply start with [1, 1, t], t is never
\* 3, t = 1 when the request starts with [1, 1, 1] (LIST) and t = 2 when
\* it starts with [1, 1, 2] (SELECT).
C24_NoFailedReply ==
  Replied =>
    /\ Len(ReplyVeo) >= 3
    /\ SubSeq(ReplyVeo, 1, 2) = <<1, 1>>
    /\ ReplyVeo[3] # 3
    /\ SubSeq(RequestVeo, 1, 3) = <<1, 1, 1>> => ReplyVeo[3] = 1
    /\ SubSeq(RequestVeo, 1, 3) = <<1, 1, 2>> => ReplyVeo[3] = 2

\* C24: a LIST request with an admitted image has been answered with
\* message type 1.
C24_Witness ==
  /\ Replied
  /\ SubSeq(RequestVeo, 1, 3) = <<1, 1, 1>>
  /\ ReplyVeo[3] = 1
  /\ Len(Admitted) >= 1

\* The envelope of the reply sent answers the request in 'packet'.
EnvelopeOk ==
  Replied =>
    /\ sent.bsdpack.op = <<2>>
    /\ sent.bsdpack.yiaddr = <<0, 0, 0, 0>>
    /\ sent.bsdpack.dhcp_message_type = <<5>>
    /\ sent.bsdpack.siaddr = serverip
    /\ sent.bsdpack.server_identifier = serverip
    /\ sent.bsdpack.htype = packet.htype
    /\ sent.bsdpack.hlen = packet.hlen
    /\ sent.bsdpack.xid = packet.xid
    /\ sent.bsdpack.ciaddr = packet.ciaddr
    /\ sent.bsdpack.chaddr = packet.chaddr
    /\ ReplyVeo[3] = 1 => SubSeq(ReplyVeo, 4, 7) = <<4, 2>> \o serverpriority

\* C25: after every step the reply sent has op 2, yiaddr 0.0.0.0, DHCP
\* message type 5, the server's address as siaddr and server_identifier,
\* and htype, hlen, xid, ciaddr and chaddr of the request; a LIST reply
\* carries the priority bytes, which no step changes.
C25_EnvelopeOfRequest ==
  [][ EnvelopeOk' /\ serverpriority' = serverpriority ]_vars

\* C25: the request with xid 2 and htype 6 has been answered.
C25_Witness ==
  /\ Replied
  /\ packet.xid = <<0, 0, 0, 2>>
  /\ sent.bsdpack.xid = <<0, 0, 0, 2>>
  /\ sent.bsdpack.htype = <<6>>

(* ---------------------------------------------------------------------- *)
(* C26: an interrupted receive                                             *)
(* ---------------------------------------------------------------------- *)

\* C26: a reply is only ever sent in an iteration whose GetNextDhcpPacket
\* returned: after an interrupted receive nothing is handled, so no
\* packet is answered a second time.
C26_InterruptedReceiveRetried ==
  frame.pc \in {"dispatch", "lookup", "send"} => frame.fresh

(* ---------------------------------------------------------------------- *)
(* C27: the shared state under request handling                            *)
(* ---------------------------------------------------------------------- *)

\* C27: an iteration of the loop that handles a request (or a timeout)
\* leaves the catalog, the default id, its has-default flag and the
\* encoded image list as they were.
C27_RequestsLeaveSharedState ==
  [][ /\ nbiimages' = nbiimages
      /\ defaultnbi' = defaultnbi
      /\ hasdefault' = hasdefault
      /\ imagenameslist' = imagenameslist ]_vars

(* ---------------------------------------------------------------------- *)
(* C28: the default and the order of the records                           *)
(* ---------------------------------------------------------------------- *)

\* The sequences with the elements of ents in another order.
Reorderings(ents) ==
  { [i \in 1..Len(ents) |-> ents[f[i]]] :
      f \in { g \in [1..Len(ents) -> 1..Len(ents)] :
                \A i, j \in 1..Len(ents) : i # j => g[i] # g[j] } }

\* C28: the default doEntitlementPostProcessing leaves after the first
\* lookup (started from defaultnbi = 0, hasdefault = False) is the one it
\* leaves for every permutation of the admitted records.
C28_DefaultOrderFree ==
  (packet.kind = "packet" /\ sent.kind = "reply") =>
    \A perm \in Reorderings(Admitted) :
      doEntitlementPostProcessing(perm,
        [defaultnbi |-> 0, hasdefault |-> FALSE,
         imagenameslist |-> <<>>]).defaultnbi = defaultnbi

(* ---------------------------------------------------------------------- *)
(* C29: short blobs                                                        *)
(* ---------------------------------------------------------------------- *)

\* C29: a request whose vendor options are 7 bytes long or shorter gets no
\* reply.
C29_ShortBlobIgnored ==
  (packet.kind = "packet" /\ Len(RequestVeo) <= 7) => sent = NoReply

(* ---------------------------------------------------------------------- *)
(* C30: name_length                                                        *)
(* ---------------------------------------------------------------------- *)

\* bytes is the concatenation of one entry [129, 0, hi, lo, name_len,
\* name] per record of ents, each followed by exactly name_len = the
\* record's length bytes of name.
RECURSIVE EntriesOf(_, _)
EntriesOf(bytes, ents) ==
  IF Len(ents) = 0 THEN Len(bytes) = 0
  ELSE /\ Len(bytes) >= 5
       /\ SubSeq(bytes, 1, 2) = <<129, 0>>
       /\ bytes[5] = Head(ents).length
       /\ Len(bytes) >= 5 + bytes[5]
       /\ SubSeq(bytes, 6, 5 + bytes[5]) = Head(ents).name
       /\ EntriesOf(SubSeq(bytes, 6 + bytes[5], Len(bytes)), Tail(ents))

\* C30: the image list of every LIST reply consists of one entry per
\* listed record whose name_len byte is the number of name bytes that
\* follow it.
C30_NameLengthIsEmitted ==
  ListReplied =>
    EntriesOf(SubSeq(ReplyImageList, 3, Len(ReplyImageList)), Listed)

(* ---------------------------------------------------------------------- *)
(* C31: long names                                                         *)
(* ---------------------------------------------------------------------- *)

\* C31: no record of the catalog has a name_length above 255.
C31_LongNameRejected ==
  \A i \in 1..Len(nbiimages) : nbiimages[i].length <= 255

(* ---------------------------------------------------------------------- *)
(* C32: DHCP message types                                                 *)
(* ---------------------------------------------------------------------- *)

\* C32: a packet whose DHCP message type is not INFORM gets no reply.
C32_OnlyInformAnswered ==
  (packet.kind = "packet" /\ packet.dhcp_message_type # DhcpInform)
    => sent = NoReply

(* ---------------------------------------------------------------------- *)
(* C33: the default and the image list of one reply                        *)
(* ---------------------------------------------------------------------- *)

\* C33: the default id of a LIST reply that has a default_boot_image
\* sub-option is the id of an image of the boot_image_list of that reply.
C33_DefaultIsListed ==
  (ListReplied /\ ReplyHasDefault) => ReplyDefault \in ReplyIds

(* ---------------------------------------------------------------------- *)
(* C34: malformed requests                                                 *)
(* ---------------------------------------------------------------------- *)

\* pkt is a BSDP request with truncated vendor options or an unknown
\* sub-option code, with a vendor_class_identifier of fewer than three
\* fields, or a SELECT without selected_boot_image (code 8).
Malformed(pkt) ==
  /\ pkt.kind = "packet"
  /\ Len(pkt.vendor_encapsulated_options) >= 3
  /\ pkt.vendor_encapsulated_options[3] \in {1, 2}
  /\ \/ ~parseOptions(pkt.vendor_encapsulated_options).ok
     \/ Len(pkt.vendor_class_identifier) < 3
     \/ /\ pkt.vendor_encapsulated_options[3] = 2
        /\ 8 \notin TlvCodes(pkt.vendor_encapsulated_options, 1)

\* C34: the iteration that handles a malformed request sends nothing,
\* leaves the catalog, the default id and the image list as they were and
\* leaves the loop running.
C34_MalformedRequestHarmless ==
  [][ Malformed(packet') =>
        /\ sent' = NoReply
        /\ nbiimages' = nbiimages
        /\ defaultnbi' = defaultnbi
        /\ imagenameslist' = imagenameslist
        /\ up' ]_vars

====
